---- MODULE Spec2Model ----
(***************************************************************************)
(* DocuMorph AI (src/main.py): the template manager (preset files), the    *)
(* text extractor, the grammar checker, the formatting engine and the      *)
(* export action, each as a state machine over its own variables.          *)
(***************************************************************************)
EXTENDS Integers, Sequences, FiniteSets, TLC

VARIABLES
    fs,          \* preset files on disk: path -> file text, or NoFile
    saved,       \* history: name -> cfg of the last completed save not deleted since
    storeRet,    \* what the last template-manager call returned or raised
    uiOutcome,   \* how the last script run ended: "ok", "message" or "uncaught"
    uiMsg,       \* the message the last script run showed
    tmpDisk,     \* temporary files on disk, by the number of the call that made them
    calls,       \* calls of extract_text_from_file so far
    extractRet,  \* the last call: its file type, temporary file, result and message
    chkText,     \* the text last given to improved_grammar_check
    chkRet,      \* what that call returned, with the issues found before the cut
    doc,         \* the engine's document: body paragraphs and sections
    engOp,       \* the engine method last applied, with the document before it
    expDisk,     \* output files on disk, by the number of the export that made them
    exports,     \* exports so far
    expRet,      \* the last export: failed step, output file, message, download,
                 \* and whether a logo was uploaded
    presetFile,  \* the raced preset file: the inode its path names, and the inodes
    sess,        \* each session's template-manager call: its position and result
    wrote        \* history: the settings some save_template call was given

storeVars == <<fs, saved, storeRet>>
uiVars == <<uiOutcome, uiMsg>>
extractVars == <<tmpDisk, calls, extractRet>>
checkerVars == <<chkText, chkRet>>
engineVars == <<doc, engOp>>
exportVars == <<expDisk, exports, expRet>>
raceVars == <<presetFile, sess, wrote>>
vars == <<fs, saved, storeRet, uiOutcome, uiMsg, tmpDisk, calls, extractRet,
          chkText, chkRet, doc, engOp, expDisk, exports, expRet, presetFile, sess, wrote>>

\* what the template manager never touches
notStore == <<extractVars, checkerVars, engineVars, exportVars, raceVars>>

None == [t |-> "None"]

(***************************************************************************)
(* JSON values of a settings dict and their text form                      *)
(***************************************************************************)
JInt(n) == [t |-> "int", v |-> n]
\* a float, kept in hundredths: JFloat(115) is 1.15
JFloat(h) == [t |-> "float", v |-> h]
JStr(s) == [t |-> "str", v |-> s]
JList(l) == [t |-> "list", v |-> l]

Digit == <<"0", "1", "2", "3", "4", "5", "6", "7", "8", "9">>

DigitVal(c) == (CHOOSE i \in 1..10 : Digit[i] = c) - 1

RECURSIVE IntText(_)
IntText(n) == IF n < 10 THEN <<Digit[n + 1]>>
              ELSE IntText(n \div 10) \o <<Digit[(n % 10) + 1]>>

RECURSIVE TextInt(_)
TextInt(s) == IF s = <<>> THEN 0
              ELSE 10 * TextInt(SubSeq(s, 1, Len(s) - 1)) + DigitVal(s[Len(s)])

\* float.__repr__: shortest form that reads back, always with a fraction part
FloatText(h) ==
    LET whole == IntText(h \div 100)
        frac == h % 100
    IN whole \o <<".">> \o
         (IF frac % 10 = 0 THEN <<Digit[(frac \div 10) + 1]>>
          ELSE <<Digit[(frac \div 10) + 1], Digit[(frac % 10) + 1]>>)

TextFloat(s) ==
    LET dot == CHOOSE i \in 1..Len(s) : s[i] = "."
        whole == TextInt(SubSeq(s, 1, dot - 1))
        fr == SubSeq(s, dot + 1, Len(s))
    IN 100 * whole + (IF Len(fr) = 1 THEN 10 * DigitVal(fr[1])
                      ELSE 10 * DigitVal(fr[1]) + DigitVal(fr[2]))

\* json.dump of a scalar
ScalarText(x) ==
    CASE x.t = "int" -> IntText(x.v)
      [] x.t = "float" -> FloatText(x.v)
      [] x.t = "str" -> <<"\"", x.v, "\"">>

\* json.load of a scalar
TextScalar(s) ==
    IF s[1] = "\"" THEN JStr(s[2])
    ELSE IF \E i \in 1..Len(s) : s[i] = "." THEN JFloat(TextFloat(s))
    ELSE JInt(TextInt(s))

RECURSIVE ListText(_)
ListText(l) ==
    IF l = <<>> THEN <<>>
    ELSE IF Len(l) = 1 THEN ScalarText(l[1])
    ELSE ScalarText(l[1]) \o <<",">> \o ListText(Tail(l))

RECURSIVE SplitItems(_, _)
SplitItems(s, cur) ==
    IF s = <<>> THEN (IF cur = <<>> THEN <<>> ELSE <<cur>>)
    ELSE IF Head(s) = "," THEN <<cur>> \o SplitItems(Tail(s), <<>>)
    ELSE SplitItems(Tail(s), Append(cur, Head(s)))

ValueText(x) ==
    IF x.t = "list" THEN <<"[">> \o ListText(x.v) \o <<"]">>
    ELSE ScalarText(x)

TextValue(s) ==
    IF s[1] = "[" THEN
        LET items == SplitItems(SubSeq(s, 2, Len(s) - 1), <<>>)
        IN JList([i \in 1..Len(items) |-> TextScalar(items[i])])
    ELSE TextScalar(s)

\* the keys of current_settings, in the order the dict is built
ConfigKeys == <<"font_name", "font_size", "line_spacing", "alignment", "margins",
                "header_text", "footer_text", "hf_size", "hf_align",
                "logo_width", "logo_height">>

\* json.dump(cfg, f, indent=4): the members in insertion order
JsonDump(cfg) == [i \in 1..Len(ConfigKeys) |->
                    [key |-> ConfigKeys[i], text |-> ValueText(cfg[ConfigKeys[i]])]]

\* json.load(f): a dict of the members read
JsonLoad(text) ==
    [k \in {text[i].key : i \in 1..Len(text)} |->
        LET i == CHOOSE j \in 1..Len(text) : text[j].key = k
        IN TextValue(text[i].text)]

(***************************************************************************)
(* Template manager: preset files under TEMPLATE_DIR                       *)
(***************************************************************************)
\* A preset name is the text typed into "Save Current Settings As", kept as
\* its components between "/" separators: <<"..", "a">> is "../a".
Names == {<<"a">>, <<"b">>, <<"..", "a">>, <<"sub", "a">>}

EmptyName == <<>>

TEMPLATE_DIR == <<"templates">>

\* directories that exist: the working directory and TEMPLATE_DIR (os.makedirs)
Dirs == {<<>>, TEMPLATE_DIR}

\* the directory a relative path names, ".." resolved by the file system
RECURSIVE Resolve(_, _)
Resolve(dir, comps) ==
    IF comps = <<>> THEN dir
    ELSE IF Head(comps) = ".." THEN
        Resolve(IF dir = <<>> THEN <<>> ELSE SubSeq(dir, 1, Len(dir) - 1), Tail(comps))
    ELSE Resolve(Append(dir, Head(comps)), Tail(comps))

\* os.path.join(TEMPLATE_DIR, f"{name}.json")
TemplatePath(name) ==
    [dir |-> Resolve(TEMPLATE_DIR, SubSeq(name, 1, Len(name) - 1)),
     stem |-> name[Len(name)], ext |-> "json"]

Paths == {TemplatePath(n) : n \in Names}

NoFile == [t |-> "NoFile"]

SettingsOf(font, size, spacing, align, margins) ==
    [k \in {ConfigKeys[i] : i \in 1..Len(ConfigKeys)} |->
        CASE k = "font_name" -> JStr(font)
          [] k = "font_size" -> JInt(size)
          [] k = "line_spacing" -> JFloat(spacing)
          [] k = "alignment" -> JStr(align)
          [] k = "margins" -> JList(margins)
          [] k = "header_text" -> JStr("")
          [] k = "footer_text" -> JStr("")
          [] k = "hf_size" -> JInt(10)
          [] k = "hf_align" -> JStr("Center")
          [] k = "logo_width" -> JFloat(100)
          [] k = "logo_height" -> JFloat(100)]

\* the settings when no template is selected
DefaultConfig ==
    SettingsOf("Times New Roman", 12, 115, "Left",
               <<JFloat(100), JFloat(100), JFloat(100), JFloat(100)>>)

\* settings the widgets can hold
Cfgs == {DefaultConfig,
         SettingsOf("Arial", 14, 150, "Center",
                    <<JFloat(50), JFloat(125), JFloat(300), JFloat(10)>>),
         SettingsOf("Georgia", 8, 200, "Justify",
                    <<JFloat(210), JFloat(100), JFloat(5), JFloat(100)>>)}

\* os.path.exists(path)
Exists(files, path) == files[path] # NoFile

\* list_templates(): the names of the .json files in TEMPLATE_DIR
list_templates(files) ==
    {<<p.stem>> : p \in {q \in Paths : q.dir = TEMPLATE_DIR /\ q.ext = "json"
                                        /\ Exists(files, q)}}

\* load_template(name): [val, raised]
load_template(files, name) ==
    LET path == TemplatePath(name)
    IN IF path.dir \in Dirs /\ Exists(files, path)
       THEN [val |-> JsonLoad(files[path]), raised |-> "none"]
       ELSE [val |-> None, raised |-> "none"]

\* save_template(name, cfg): [files, raised]; open(path, "w") needs the directory
save_template(files, name, cfg) ==
    LET path == TemplatePath(name)
    IN IF path.dir \in Dirs
       THEN [files |-> [files EXCEPT ![path] = JsonDump(cfg)], raised |-> "none"]
       ELSE [files |-> files, raised |-> "FileNotFoundError"]

\* delete_template(name): the files afterwards
delete_template(files, name) ==
    LET path == TemplatePath(name)
    IN IF path.dir \in Dirs /\ Exists(files, path)
       THEN [files EXCEPT ![path] = NoFile]
       ELSE files

\* the extractor's variables before any call
ExtractIdle ==
    /\ tmpDisk = {}
    /\ calls = 0
    /\ extractRet = [type |-> "none", tmp |-> 0, val |-> None, raised |-> "none",
                     msg |-> "none"]

\* chkRet before the call is made
NotRun == [issues |-> <<>>, found |-> 0, corrected |-> <<>>, raised |-> "none",
           msg |-> "not run"]

\* the checker's variables before any call
CheckerIdle ==
    /\ chkText = <<>>
    /\ chkRet = NotRun

\* the arguments of an engine method, those it does not take left as here
NoArgs == [font_name |-> "", font_size |-> 0, spacing |-> 0, alignment |-> "",
           margins |-> <<0, 0, 0, 0>>, items |-> <<>>]

NoDocument == [paragraphs |-> <<>>, sections |-> <<>>, styles |-> {}]

\* no document loaded
EngineIdle ==
    /\ doc = NoDocument
    /\ engOp = [op |-> "none", n |-> 0, before |-> NoDocument, args |-> NoArgs,
                raised |-> "none"]

\* expRet before any export: no step failed, no output file, nothing offered
NoExport == [failed |-> "none", tmp |-> 0, msg |-> "none", download |-> FALSE,
             data |-> NoDocument, logo |-> FALSE]

\* the export's variables before any export
ExportIdle ==
    /\ expDisk = {}
    /\ exports = 0
    /\ expRet = NoExport

\* the sessions of the template manager: two browser sessions of the app
Sessions == {1, 2}

\* a session between calls, or before its first
NoCall == [op |-> "none", pc |-> "idle", cfg |-> None, h |-> 0, val |-> None,
           raised |-> "none", n |-> 0]

\* the raced file's variables before any session calls: no file, no inode
RaceIdle ==
    /\ presetFile = [link |-> 0, inodes |-> <<>>]
    /\ sess = [s \in Sessions |-> NoCall]
    /\ wrote = {}

StoreInit ==
    /\ fs = [p \in Paths |-> NoFile]
    /\ saved = [n \in Names |-> None]
    /\ storeRet = [op |-> "none", name |-> EmptyName, val |-> None, raised |-> "none"]
    /\ uiOutcome = "ok"
    /\ uiMsg = "none"
    /\ RaceIdle
    /\ ExtractIdle /\ CheckerIdle /\ EngineIdle /\ ExportIdle

\* a call save_template(name, cfg)
SaveTemplate(name, cfg) ==
    LET r == save_template(fs, name, cfg)
    IN /\ fs' = r.files
       /\ saved' = IF r.raised = "none" THEN [saved EXCEPT ![name] = cfg] ELSE saved
       /\ storeRet' = [op |-> "save", name |-> name, val |-> None, raised |-> r.raised]
       /\ UNCHANGED <<uiVars, notStore>>

\* a call load_template(name)
LoadTemplate(name) ==
    LET r == load_template(fs, name)
    IN /\ storeRet' = [op |-> "load", name |-> name, val |-> r.val, raised |-> r.raised]
       /\ UNCHANGED <<fs, saved, uiOutcome, uiMsg, notStore>>

\* a call delete_template(name)
DeleteTemplate(name) ==
    /\ fs' = delete_template(fs, name)
    /\ saved' = [saved EXCEPT ![name] = None]
    /\ storeRet' = [op |-> "delete", name |-> name, val |-> None, raised |-> "none"]
    /\ UNCHANGED <<uiVars, notStore>>

\* a call list_templates()
ListTemplates ==
    /\ storeRet' = [op |-> "list", name |-> EmptyName, val |-> list_templates(fs),
                    raised |-> "none"]
    /\ UNCHANGED <<fs, saved, uiOutcome, uiMsg, notStore>>

\* One script run through the sidebar with template `sel` selected ("<none>"
\* is EmptyName) and the Save button pressed with `name` typed in.
SidebarSave(sel, name, cfg) ==
    /\ sel \in {EmptyName} \cup list_templates(fs)
    /\ LET config == IF sel # EmptyName THEN load_template(fs, sel).val
                     ELSE DefaultConfig
       IN IF name # EmptyName
          THEN LET r == save_template(fs, name, cfg)
               IN /\ fs' = r.files
                  /\ saved' = IF r.raised = "none" THEN [saved EXCEPT ![name] = cfg]
                              ELSE saved
                  /\ storeRet' = [op |-> "save", name |-> name, val |-> config,
                                  raised |-> r.raised]
                  /\ uiOutcome' = IF r.raised = "none" THEN "message" ELSE "uncaught"
                  /\ uiMsg' = IF r.raised = "none" THEN "saved" ELSE r.raised
          ELSE /\ uiOutcome' = "message"
               /\ uiMsg' = "Please enter a template name"
               /\ storeRet' = [op |-> "none", name |-> EmptyName, val |-> config,
                               raised |-> "none"]
               /\ UNCHANGED <<fs, saved>>
    /\ UNCHANGED notStore

\* One script run with template `sel` selected and the Delete button pressed
SidebarDelete(sel) ==
    /\ sel \in list_templates(fs)
    /\ LET config == load_template(fs, sel).val
       IN /\ fs' = delete_template(fs, sel)
          /\ saved' = [saved EXCEPT ![sel] = None]
          /\ storeRet' = [op |-> "delete", name |-> sel, val |-> config,
                          raised |-> "none"]
          /\ uiOutcome' = "ok"
          /\ uiMsg' = "none"
    /\ UNCHANGED notStore

StoreNext ==
    \/ \E n \in Names, c \in Cfgs : SaveTemplate(n, c)
    \/ \E n \in Names : LoadTemplate(n)
    \/ \E n \in Names : DeleteTemplate(n)
    \/ ListTemplates
    \/ \E sel \in {EmptyName} \cup Names, n \in {EmptyName} \cup Names, c \in Cfgs :
          SidebarSave(sel, n, c)
    \/ \E sel \in Names : SidebarDelete(sel)

SpecStore == StoreInit /\ [][StoreNext]_vars

\* C1: after any sequence of saves and deletes, load_template(name) returns
\* the settings last saved under the name and not deleted since (None when
\* there is none), and list_templates() is exactly the names that load.
C1_LosslessLastWriteWins ==
    /\ \A n \in Names : load_template(fs, n).val = saved[n]
    /\ list_templates(fs) = {n \in Names : load_template(fs, n).val # None}

\* C8: no failure propagates out of a script run: each is caught where it
\* happens and shown as a message.
C8_NoUncaughtError == uiOutcome # "uncaught"

(***************************************************************************)
(* Template manager under two sessions                                     *)
(***************************************************************************)
\* Each session runs the script on its own thread; a call of the template
\* manager is the file-system calls of its body, one at a time, and the other
\* session's calls come in between. Files are as on a POSIX system: a path
\* names an inode, an open file keeps its inode when the path is removed, and
\* open(path, "w") truncates the inode the path names.

\* most calls one session makes
MaxRaceCalls == 2

\* the preset both sessions work on
RaceName == <<"a">>

\* the settings the sessions save: their dumps differ in length
RaceCfgs == {DefaultConfig,
             SettingsOf("Arial", 14, 150, "Center",
                        <<JFloat(50), JFloat(125), JFloat(300), JFloat(10)>>)}

\* len(s) of the strings of the settings
StrLen(s) ==
    CASE s = "" -> 0
      [] s = "Left" -> 4
      [] s = "Arial" -> 5
      [] s = "Center" -> 6
      [] s = "Georgia" -> 7
      [] s = "Justify" -> 7
      [] s = "Times New Roman" -> 15

\* the bytes one member's value takes in the file
MemberBytes(m) ==
    IF m.text[1] = "\"" THEN StrLen(m.text[2]) + 2 ELSE Len(m.text)

\* The bytes of a dump that depend on the settings: keys, indentation and
\* punctuation take the same number of bytes in every dump.
RECURSIVE DumpBytes(_)
DumpBytes(text) ==
    IF text = <<>> THEN 0 ELSE MemberBytes(Head(text)) + DumpBytes(Tail(text))

\* An inode's content: the dump written last from offset 0, followed by
\* `extra` bytes that an earlier, longer write left behind it.
EmptyFile == [data |-> <<>>, extra |-> 0]

\* f.write of the whole dump at offset 0, when the buffer is flushed by close:
\* the bytes the inode held beyond the dump's length stay
WriteAtStart(c, text) ==
    LET held == DumpBytes(c.data) + c.extra
    IN [data |-> text,
        extra |-> IF held > DumpBytes(text) THEN held - DumpBytes(text) ELSE 0]

\* json.load(f) on what the inode holds: [val, raised]. An empty file has no
\* value to read; bytes after the closing brace are extra data.
ReadJson(c) ==
    IF c.data = <<>> \/ c.extra > 0
    THEN [val |-> None, raised |-> "JSONDecodeError"]
    ELSE [val |-> JsonLoad(c.data), raised |-> "none"]

notRace == <<storeVars, uiVars, extractVars, checkerVars, engineVars, exportVars>>

RaceInit ==
    /\ fs = [p \in Paths |-> NoFile]
    /\ saved = [n \in Names |-> None]
    /\ storeRet = [op |-> "none", name |-> EmptyName, val |-> None, raised |-> "none"]
    /\ uiOutcome = "ok"
    /\ uiMsg = "none"
    /\ RaceIdle
    /\ ExtractIdle /\ CheckerIdle /\ EngineIdle /\ ExportIdle

\* session s may start a call
CanCall(s) == sess[s].pc = "idle" /\ sess[s].n < MaxRaceCalls

\* session s starts call `op`
Begun(s, op) == [NoCall EXCEPT !.op = op, !.n = sess[s].n + 1]

\* the call of session s ends: its file is closed
Ended(s, val, raised) ==
    [sess[s] EXCEPT !.pc = "idle", !.h = 0, !.val = val, !.raised = raised]

\* save_template, line 245: open(path, "w") makes the file or truncates it
SaveOpen(s, cfg) ==
    /\ CanCall(s)
    /\ LET id == IF presetFile.link = 0 THEN Len(presetFile.inodes) + 1 ELSE presetFile.link
       IN /\ presetFile' = [link |-> id,
                      inodes |-> IF presetFile.link = 0 THEN Append(presetFile.inodes, EmptyFile)
                                 ELSE [presetFile.inodes EXCEPT ![id] = EmptyFile]]
          /\ sess' = [sess EXCEPT ![s] = [Begun(s, "save") EXCEPT !.pc = "dump",
                                                                   !.cfg = cfg, !.h = id]]
    /\ wrote' = wrote \cup {cfg}
    /\ UNCHANGED notRace

\* save_template, line 246 and the end of the with block: json.dump fills the
\* file's buffer, and close writes it to the inode that was opened
SaveDump(s) ==
    /\ sess[s].pc = "dump"
    /\ presetFile' = [presetFile EXCEPT !.inodes[sess[s].h] =
                    WriteAtStart(presetFile.inodes[sess[s].h], JsonDump(sess[s].cfg))]
    /\ sess' = [sess EXCEPT ![s] = Ended(s, None, "none")]
    /\ UNCHANGED <<wrote, notRace>>

\* load_template, line 239: os.path.exists(path)
LoadExists(s) ==
    /\ CanCall(s)
    /\ sess' = [sess EXCEPT ![s] = IF presetFile.link # 0
                                   THEN [Begun(s, "load") EXCEPT !.pc = "open"]
                                   ELSE Begun(s, "load")]
    /\ UNCHANGED <<presetFile, wrote, notRace>>

\* load_template, line 240: open(path, "r")
LoadOpen(s) ==
    /\ sess[s].pc = "open"
    /\ sess' = [sess EXCEPT ![s] = IF presetFile.link # 0
                                   THEN [sess[s] EXCEPT !.pc = "read", !.h = presetFile.link]
                                   ELSE Ended(s, None, "FileNotFoundError")]
    /\ UNCHANGED <<presetFile, wrote, notRace>>

\* load_template, line 241: json.load(f)
LoadRead(s) ==
    /\ sess[s].pc = "read"
    /\ LET r == ReadJson(presetFile.inodes[sess[s].h])
       IN sess' = [sess EXCEPT ![s] = Ended(s, r.val, r.raised)]
    /\ UNCHANGED <<presetFile, wrote, notRace>>

\* delete_template, line 250: os.path.exists(path)
DeleteExists(s) ==
    /\ CanCall(s)
    /\ sess' = [sess EXCEPT ![s] = IF presetFile.link # 0
                                   THEN [Begun(s, "delete") EXCEPT !.pc = "remove"]
                                   ELSE Begun(s, "delete")]
    /\ UNCHANGED <<presetFile, wrote, notRace>>

\* delete_template, line 251: os.remove(path)
DeleteRemove(s) ==
    /\ sess[s].pc = "remove"
    /\ presetFile' = [presetFile EXCEPT !.link = 0]
    /\ sess' = [sess EXCEPT ![s] = Ended(s, None, IF presetFile.link # 0 THEN "none"
                                                  ELSE "FileNotFoundError")]
    /\ UNCHANGED <<wrote, notRace>>

RaceNext ==
    \E s \in Sessions :
        \/ \E cfg \in RaceCfgs : SaveOpen(s, cfg)
        \/ SaveDump(s)
        \/ LoadExists(s)
        \/ LoadOpen(s)
        \/ LoadRead(s)
        \/ DeleteExists(s)
        \/ DeleteRemove(s)

SpecRace == RaceInit /\ [][RaceNext]_vars

\* C12: with two sessions interleaving save_template, load_template and
\* delete_template on one preset name, every load_template that has ended
\* returned None or a complete config that some save_template call wrote,
\* and no load_template or delete_template ended in an error.
C12_RacesAreLastWriteWins ==
    \A s \in Sessions :
        (sess[s].pc = "idle") =>
            /\ sess[s].op = "load" =>
                  /\ sess[s].raised = "none"
                  /\ sess[s].val \in {None} \cup wrote
            /\ sess[s].op = "delete" => sess[s].raised = "none"

(***************************************************************************)
(* Text extractor                                                          *)
(***************************************************************************)
\* most pages a sample PDF has
MaxPages == 2

\* most calls of extract_text_from_file in a run of the model
MaxCalls == 3

Str(chars) == [t |-> "str", v |-> chars]

PDF == "application/pdf"

DOCX == "application/vnd.openxmlformats-officedocument.wordprocessingml.document"

MSWORD == "application/msword"

\* every type the Grammar Check uploader lets through (pdf, docx, txt) and doc
MimeTypes == {PDF, DOCX, MSWORD, "text/plain"}

IsSpace(c) == c \in {" ", "\n"}

RECURSIVE LStrip(_)
LStrip(s) == IF s # <<>> /\ IsSpace(Head(s)) THEN LStrip(Tail(s)) ELSE s

RECURSIVE RStrip(_)
RStrip(s) == IF s # <<>> /\ IsSpace(s[Len(s)]) THEN RStrip(SubSeq(s, 1, Len(s) - 1))
             ELSE s

\* str.strip()
Strip(s) == LStrip(RStrip(s))

\* page.extract_text() of one page: None for a scan, or its characters
PageTexts == {None, Str(<<>>), Str(<<"a">>), Str(<<"b", " ">>)}

RECURSIVE PagesUpTo(_)
PagesUpTo(n) == IF n = 0 THEN {<<>>}
                ELSE PagesUpTo(n - 1) \cup
                     {Append(ps, t) : ps \in {q \in PagesUpTo(n - 1) : Len(q) = n - 1},
                                      t \in PageTexts}

\* the text of a .docx body, as docx2python gives it
DocxTexts == {<<>>, <<"h", "i", "\n">>}

\* where an upload makes the extraction fail: nowhere, when the file is
\* opened or written (pdfplumber.open, tmp.write), or when it is parsed
Failures == {"none", "write", "parse"}

Uploads ==
    {[type |-> PDF, pages |-> ps, text |-> <<>>, fail |-> f] :
        ps \in PagesUpTo(MaxPages), f \in {"none", "parse"}}
    \cup {[type |-> ty, pages |-> <<>>, text |-> tx, fail |-> f] :
            ty \in {DOCX, MSWORD}, tx \in DocxTexts, f \in Failures}
    \cup {[type |-> "text/plain", pages |-> <<>>, text |-> tx, fail |-> "none"] :
            tx \in DocxTexts}

\* the loop over pdf.pages: text += page_text + "\n\n" for each page with text
RECURSIVE PdfText(_)
PdfText(pages) ==
    IF pages = <<>> THEN <<>>
    ELSE LET page_text == Head(pages)
         IN (IF page_text # None /\ page_text.v # <<>>
             THEN page_text.v \o <<"\n", "\n">> ELSE <<>>) \o PdfText(Tail(pages))

\* the except branch: st.error(...) and return ""
ExtractionError(disk, tmp) ==
    [val |-> Str(<<>>), raised |-> "none", msg |-> "Text extraction error",
     disk |-> disk, tmp |-> tmp]

\* the docx/msword branch; `tmp` is the temporary file NamedTemporaryFile makes
ExtractDocx(up, disk, tmp) ==
    IF up.fail # "none"
    THEN ExtractionError(disk \cup {tmp}, tmp)
    ELSE [val |-> Str(up.text), raised |-> "none", msg |-> "none",
          disk |-> (disk \cup {tmp}) \ {tmp}, tmp |-> tmp]

\* extract_text_from_file(uploaded_file): the value returned, the message
\* shown and the temporary files on disk afterwards
extract_text_from_file(up, disk, tmp) ==
    IF up.type = PDF
    THEN IF up.fail # "none" THEN ExtractionError(disk, 0)
         ELSE [val |-> Str(Strip(PdfText(up.pages))), raised |-> "none",
               msg |-> "none", disk |-> disk, tmp |-> 0]
    ELSE IF up.type \in {DOCX, MSWORD}
    THEN ExtractDocx(up, disk, tmp)
    ELSE [val |-> None, raised |-> "none", msg |-> "none", disk |-> disk, tmp |-> 0]

notExtract == <<storeVars, uiVars, checkerVars, engineVars, exportVars, raceVars>>

ExtractInit ==
    /\ fs = [p \in Paths |-> NoFile]
    /\ saved = [n \in Names |-> None]
    /\ storeRet = [op |-> "none", name |-> EmptyName, val |-> None, raised |-> "none"]
    /\ uiOutcome = "ok"
    /\ uiMsg = "none"
    /\ RaceIdle
    /\ ExtractIdle /\ CheckerIdle /\ EngineIdle /\ ExportIdle

\* a call extract_text_from_file(up)
Extract(up) ==
    /\ calls < MaxCalls
    /\ LET r == extract_text_from_file(up, tmpDisk, calls + 1)
       IN /\ tmpDisk' = r.disk
          /\ extractRet' = [type |-> up.type, tmp |-> r.tmp, val |-> r.val,
                            raised |-> r.raised, msg |-> r.msg]
    /\ calls' = calls + 1
    /\ UNCHANGED notExtract

ExtractNext == \E up \in Uploads : Extract(up)

SpecExtract == ExtractInit /\ [][ExtractNext]_vars

\* C2: when a call that made a temporary copy has returned, the copy is gone,
\* whether the extraction succeeded or failed.
C2_TempFileRemoved == extractRet.tmp # 0 => extractRet.tmp \notin tmpDisk

\* C3: on a file that is neither PDF nor docx/msword the call returns the
\* empty string and raises nothing.
C3_UnsupportedGivesEmpty ==
    (extractRet.type \in MimeTypes \ {PDF, DOCX, MSWORD})
        => extractRet.val = Str(<<>>) /\ extractRet.raised = "none"

(***************************************************************************)
(* Grammar checker: improved_grammar_check                                 *)
(***************************************************************************)
\* A text is its sequence of characters.
\* the words of the sample texts, each as its characters
W == [their |-> <<"t", "h", "e", "i", "r">>,
      there |-> <<"t", "h", "e", "r", "e">>,
      theyre |-> <<"t", "h", "e", "y", "'", "r", "e">>,
      your |-> <<"y", "o", "u", "r">>,
      youre |-> <<"y", "o", "u", "'", "r", "e">>,
      its |-> <<"i", "t", "s">>,
      its_apos |-> <<"i", "t", "'", "s">>,
      affect |-> <<"a", "f", "f", "e", "c", "t">>,
      effect |-> <<"e", "f", "f", "e", "c", "t">>,
      then |-> <<"t", "h", "e", "n">>,
      than |-> <<"t", "h", "a", "n">>,
      thanks |-> <<"t", "h", "a", "n", "k", "s">>,
      then_cap |-> <<"T", "h", "e", "n">>,
      havv |-> <<"h", "a", "v", "v">>,
      have |-> <<"h", "a", "v", "e">>,
      teh |-> <<"t", "e", "h">>,
      the |-> <<"t", "h", "e">>]

\* the words the sample texts are made of
Vocabulary == {W.their, W.there, W.theyre, W.your, W.youre, W.its, W.its_apos, W.affect,
               W.effect, W.then, W.than, W.thanks, W.then_cap, W.havv, W.teh}

\* most words in a sample text
MaxWords == 2

\* most repetitions of "their " in a long sample text
MaxRepeat == 51

\* the upper-case letters of the sample texts, folded as re.IGNORECASE does
Lower(c) == IF c = "T" THEN "t" ELSE c

\* \w of the re module, over the characters of the sample texts
IsWordChar(c) == c \notin {" ", "'", "\n"}

RECURSIVE Join(_)
Join(ws) == IF ws = <<>> THEN <<>>
            ELSE IF Len(ws) = 1 THEN ws[1]
            ELSE ws[1] \o <<" ">> \o Join(Tail(ws))

RECURSIVE Repeat(_, _)
Repeat(block, n) == IF n = 0 THEN <<>> ELSE block \o Repeat(block, n - 1)

RECURSIVE WordSeqs(_)
WordSeqs(n) == IF n = 0 THEN {<<>>}
               ELSE WordSeqs(n - 1) \cup
                    {Append(ws, w) : ws \in {q \in WordSeqs(n - 1) : Len(q) = n - 1},
                                     w \in Vocabulary}

\* sample inputs: every text of at most MaxWords words, and long texts
\* "their their ... there they're" of correctly spelled words, whose issues
\* number just under, at and over the limit
Texts == {Join(ws) : ws \in WordSeqs(MaxWords)}
         \cup {Repeat(W.their \o <<" ">>, n) \o W.there \o <<" ">> \o W.theyre :
                  n \in (MaxRepeat - 2)..MaxRepeat}

\* text[i:j] of Python, 0-based and clamped
Slice(text, i, j) ==
    LET lo == IF i < 0 THEN 0 ELSE i
        hi == IF j > Len(text) THEN Len(text) ELSE j
    IN IF hi <= lo THEN <<>> ELSE SubSeq(text, lo + 1, hi)

\* the characters of text from 0-based position i on start with `w`, case folded
StartsAt(text, i, w) ==
    /\ i + Len(w) <= Len(text)
    /\ \A k \in 1..Len(w) : Lower(text[i + k]) = Lower(w[k])

\* \b between 0-based positions i - 1 and i
Boundary(text, i) ==
    LET before == i >= 1 /\ IsWordChar(text[i])
        after == i < Len(text) /\ IsWordChar(text[i + 1])
    IN before # after

\* re.finditer(r"\bw\b", text, re.IGNORECASE) has a match starting at i
MatchesAt(text, w, i) ==
    StartsAt(text, i, w) /\ Boundary(text, i) /\ Boundary(text, i + Len(w))

\* the start positions of the matches of re.finditer
WordMatches(text, w) == {i \in 0..(Len(text) - 1) : MatchesAt(text, w, i)}

\* the sequences pieces[lo], ..., pieces[hi] one after the other
RECURSIVE Flatten(_, _, _)
Flatten(pieces, lo, hi) ==
    IF lo > hi THEN <<>>
    ELSE IF lo = hi THEN pieces[lo]
    ELSE LET mid == (lo + hi) \div 2
         IN Flatten(pieces, lo, mid) \o Flatten(pieces, mid + 1, hi)

\* re.search(alt, text, re.IGNORECASE) finds something
Search(text, alt) == \E i \in 0..(Len(text) - 1) : StartsAt(text, i, alt)

\* common_errors, in the order of the dict
common_errors == <<[word |-> W.their, alternatives |-> <<W.there, W.theyre>>],
                   [word |-> W.your, alternatives |-> <<W.youre>>],
                   [word |-> W.its, alternatives |-> <<W.its_apos>>],
                   [word |-> W.affect, alternatives |-> <<W.effect>>],
                   [word |-> W.then, alternatives |-> <<W.than>>]>>

\* the alternatives that re.search finds in the text, in their order
RECURSIVE FoundAlts(_, _)
FoundAlts(text, alts) ==
    IF alts = <<>> THEN <<>>
    ELSE (IF Search(text, Head(alts)) THEN <<Head(alts)>> ELSE <<>>)
         \o FoundAlts(text, Tail(alts))

\* the issues of the match at `start`: one for each alternative found
AltIssues(text, w, start, found) ==
    [k \in 1..Len(found) |->
        [type |-> "Common Error",
         original |-> Slice(text, start, start + Len(w)),
         suggestion |-> found[k],
         context |-> Slice(text, start - 20, start + Len(w) + 20)]]

\* the loop over re.finditer: the issues of every match, left to right
MatchIssues(text, w, found) ==
    Flatten([p \in 1..Len(text) |->
                IF found # <<>> /\ MatchesAt(text, w, p - 1)
                THEN AltIssues(text, w, p - 1, found) ELSE <<>>],
            1, Len(text))

\* the loop over common_errors.items()
RECURSIVE CommonIssues(_, _)
CommonIssues(text, entries) ==
    IF entries = <<>> THEN <<>>
    ELSE MatchIssues(text, Head(entries).word,
                     FoundAlts(text, Head(entries).alternatives))
         \o CommonIssues(text, Tail(entries))

\* Word(w).correct() of TextBlob on sample words: the dictionary's best guess
SpellFix(w) == IF w = W.havv THEN W.have
               ELSE IF w = W.teh THEN W.the
               ELSE w

\* the run of word characters that starts at position p (1-based)
WordAt(text, p) ==
    LET end == CHOOSE e \in p..Len(text) :
                  /\ \A k \in p..e : IsWordChar(text[k])
                  /\ e = Len(text) \/ ~IsWordChar(text[e + 1])
    IN SubSeq(text, p, end)

\* str(TextBlob(text).correct()): every run of word characters corrected,
\* everything between the runs kept
Correct(text) ==
    Flatten([p \in 1..Len(text) |->
                IF ~IsWordChar(text[p]) THEN <<text[p]>>
                ELSE IF p = 1 \/ ~IsWordChar(text[p - 1]) THEN SpellFix(WordAt(text, p))
                ELSE <<>>],
            1, Len(text))

\* difflib looks for popular characters from this length of b on
AutoJunkLen == 200

\* how far a[i:] and b[j:] agree (0-based), inside a[:ahi] and b[:bhi]
RECURSIVE MatchLen(_, _, _, _, _, _)
MatchLen(a, b, i, j, ahi, bhi) ==
    IF i < ahi /\ j < bhi /\ a[i + 1] = b[j + 1]
    THEN 1 + MatchLen(a, b, i + 1, j + 1, ahi, bhi)
    ELSE 0

\* SequenceMatcher.find_longest_match: the longest block, of those the one
\* starting earliest in a, of those the one starting earliest in b
find_longest_match(a, b, alo, ahi, blo, bhi) ==
    LET cands == {c \in (alo..(ahi - 1)) \X (blo..(bhi - 1)) : a[c[1] + 1] = b[c[2] + 1]}
        size(c) == MatchLen(a, b, c[1], c[2], ahi, bhi)
    IN IF cands = {} THEN [i |-> alo, j |-> blo, size |-> 0]
       ELSE LET k == CHOOSE m \in {size(c) : c \in cands} :
                        \A c \in cands : size(c) <= m
                longest == {c \in cands : size(c) = k}
                i0 == CHOOSE i \in {c[1] : c \in longest} :
                        \A c \in longest : i <= c[1]
                j0 == CHOOSE j \in {c[2] : c \in {d \in longest : d[1] = i0}} :
                        \A c \in {d \in longest : d[1] = i0} : j <= c[2]
            IN [i |-> i0, j |-> j0, size |-> k]

\* SequenceMatcher.get_matching_blocks, before the final (la, lb, 0)
RECURSIVE MatchingBlocks(_, _, _, _, _, _)
MatchingBlocks(a, b, alo, ahi, blo, bhi) ==
    LET m == find_longest_match(a, b, alo, ahi, blo, bhi)
    IN IF m.size = 0 THEN <<>>
       ELSE (IF alo < m.i /\ blo < m.j
             THEN MatchingBlocks(a, b, alo, m.i, blo, m.j) ELSE <<>>)
            \o <<m>>
            \o (IF m.i + m.size < ahi /\ m.j + m.size < bhi
                THEN MatchingBlocks(a, b, m.i + m.size, ahi, m.j + m.size, bhi)
                ELSE <<>>)

\* adjacent blocks merged, as get_matching_blocks does
RECURSIVE Collapse(_)
Collapse(blocks) ==
    IF Len(blocks) < 2 THEN blocks
    ELSE LET x == blocks[1]
             y == blocks[2]
         IN IF x.i + x.size = y.i /\ x.j + x.size = y.j
            THEN Collapse(<<[i |-> x.i, j |-> x.j, size |-> x.size + y.size]>>
                          \o SubSeq(blocks, 3, Len(blocks)))
            ELSE <<x>> \o Collapse(Tail(blocks))

\* the loop of SequenceMatcher.get_opcodes over the matching blocks
RECURSIVE OpcodesFrom(_, _, _)
OpcodesFrom(blocks, i, j) ==
    IF blocks = <<>> THEN <<>>
    ELSE LET m == Head(blocks)
             tag == IF i < m.i /\ j < m.j THEN "replace"
                    ELSE IF i < m.i THEN "delete"
                    ELSE IF j < m.j THEN "insert"
                    ELSE ""
         IN (IF tag # ""
             THEN <<[tag |-> tag, i1 |-> i, i2 |-> m.i, j1 |-> j, j2 |-> m.j]>>
             ELSE <<>>)
            \o (IF m.size > 0
                THEN <<[tag |-> "equal", i1 |-> m.i, i2 |-> m.i + m.size,
                        j1 |-> m.j, j2 |-> m.j + m.size]>>
                ELSE <<>>)
            \o OpcodesFrom(Tail(blocks), m.i + m.size, m.j + m.size)

\* SequenceMatcher(None, a, b).get_opcodes(). From AutoJunkLen characters on
\* only equal texts are given: find_longest_match then grows its block from
\* (0, 0) over the whole text.
get_opcodes(a, b) ==
    LET whole == <<[i |-> 0, j |-> 0, size |-> Len(a)]>>
        blocks == IF a = b /\ Len(b) >= AutoJunkLen THEN whole
                  ELSE Collapse(MatchingBlocks(a, b, 0, Len(a), 0, Len(b)))
    IN OpcodesFrom(Append(blocks, [i |-> Len(a), j |-> Len(b), size |-> 0]), 0, 0)

IsReportedInverted(op) == op.tag = "equal"

\* the opcode is one the loop reports
IsReported(op) == op.tag = "replace"

\* the loop over matcher.get_opcodes()
RECURSIVE ReplaceIssues(_, _, _)
ReplaceIssues(text, corrected, ops) ==
    IF ops = <<>> THEN <<>>
    ELSE LET op == Head(ops)
         IN (IF IsReported(op)
             THEN <<[type |-> "Grammar/Spelling",
                     original |-> Slice(text, op.i1, op.i2),
                     suggestion |-> Slice(corrected, op.j1, op.j2),
                     context |-> Slice(text, op.i1 - 20, op.i2 + 20)]>>
             ELSE <<>>) \o ReplaceIssues(text, corrected, Tail(ops))

\* issues[:100]
MaxIssues == 100

LimitMissing(issues) == issues

Limit(issues) == Slice(issues, 0, MaxIssues)

\* every issue the two loops append, in order
AllIssues(text, corrected) ==
    ReplaceIssues(text, corrected, get_opcodes(text, corrected))
    \o CommonIssues(text, common_errors)

\* return issues[:100]
Cut(issues, corrected) ==
    [issues |-> Limit(issues), found |-> Len(issues), corrected |-> corrected,
     raised |-> "none", msg |-> "none"]

Returned(text, corrected) == Cut(AllIssues(text, corrected), corrected)

\* improved_grammar_check(text); `fails` when the checker backend raises
improved_grammar_check(text, fails) ==
    IF fails
    THEN [issues |-> <<>>, found |-> 0, corrected |-> <<>>,
          raised |-> "none", msg |-> "Grammar check error"]
    ELSE Returned(text, Correct(text))

notChecker == <<storeVars, uiVars, extractVars, engineVars, exportVars, raceVars>>

\* the text to check is given; the call has not been made
CheckerInit ==
    /\ fs = [p \in Paths |-> NoFile]
    /\ saved = [n \in Names |-> None]
    /\ storeRet = [op |-> "none", name |-> EmptyName, val |-> None, raised |-> "none"]
    /\ uiOutcome = "ok"
    /\ uiMsg = "none"
    /\ RaceIdle
    /\ ExtractIdle /\ EngineIdle /\ ExportIdle
    /\ chkText \in Texts
    /\ chkRet = NotRun

\* the call improved_grammar_check(chkText)
Check(fails) ==
    /\ chkRet = NotRun
    /\ chkRet' = improved_grammar_check(chkText, fails)
    /\ UNCHANGED <<chkText, notChecker>>

CheckerNext == \E fails \in BOOLEAN : Check(fails)

SpecChecker == CheckerInit /\ [][CheckerNext]_vars

\* the call has been made and the backend did not fail
Checked == chkRet.msg = "none"

HasCommonIssue == \E k \in 1..Len(chkRet.issues) : chkRet.issues[k].type = "Common Error"

\* the confusable words, grouped
ConfusableGroups == {{W.their, W.there, W.theyre}, {W.your, W.youre}, {W.its, W.its_apos},
                     {W.affect, W.effect}, {W.then, W.than}}

OccursAsWord(text, w) == WordMatches(text, w) # {}

\* two different words of one group both occur as words
CoOccur(text) ==
    \E g \in ConfusableGroups : \E u, v \in g :
        u # v /\ OccursAsWord(text, u) /\ OccursAsWord(text, v)

\* a word the scan looks for occurs as a word, and one of its alternatives
\* occurs somewhere in the text
ScanHits(text) ==
    \E k \in 1..Len(common_errors) :
        /\ OccursAsWord(text, common_errors[k].word)
        /\ \E a \in 1..Len(common_errors[k].alternatives) :
              Search(text, common_errors[k].alternatives[a])

\* C4: the issue sequence returned has at most 100 issues, however many the
\* two loops found, and also when the backend failed.
C4_AtMostCap == Len(chkRet.issues) <= MaxIssues

C4_Witness == chkRet.found > MaxIssues /\ Len(chkRet.issues) = MaxIssues

\* C5 as claimed: when the corrected text equals the text, the issue
\* sequence returned is empty.
C5_NoDiffNoIssues == (Checked /\ chkRet.corrected = chkText) => chkRet.issues = <<>>

\* C5 as amended: when the corrected text equals the text, no
\* Grammar/Spelling issue is returned: every issue returned is a Common Error
\* of the confusable-word scan, and none is returned when that scan has no hit.
C5_NoDiffOnlyCommon ==
    (Checked /\ chkRet.corrected = chkText) =>
        /\ \A k \in 1..Len(chkRet.issues) : chkRet.issues[k].type = "Common Error"
        /\ ~ScanHits(chkText) => chkRet.issues = <<>>

C5_Witness ==
    /\ Checked /\ chkRet.corrected = chkText
    /\ chkText # <<>> /\ chkRet.issues # <<>>

\* C6: below the limit, a common-confusion issue is returned exactly when two
\* different words of one confusable group both occur as words in the text.
C6_ConfusionIffCoOccur ==
    (Checked /\ chkRet.found < MaxIssues) => (HasCommonIssue <=> CoOccur(chkText))

(***************************************************************************)
(* Formatting engine: DocuMorphEngine                                      *)
(***************************************************************************)
\* A document is its body paragraphs, its sections and the styles it defines.
\* A paragraph is its runs with its line spacing, alignment and style; a run
\* is its text, font and picture. Lengths are in EMU; an attribute the file
\* does not set is 0 or "unset".

\* most body paragraphs of a sample document
MaxParas == 2

\* most sections of a sample document
MaxSections == 2

\* most engine methods called on one document in a run of the model
MaxOps == 1

\* docx.shared.Pt
Pt(points) == points * 12700

\* docx.shared.Inches, of a length given in hundredths of an inch
Inches(hundredths) == hundredths * 9144

NoPicture == [width |-> 0, height |-> 0]

RunOf(text) == [text |-> text, font_name |-> "unset", font_size |-> 0,
                picture |-> NoPicture]

ParagraphOf(runs, style) ==
    [runs |-> runs, line_spacing |-> 0, alignment |-> "unset", style |-> style]

\* paragraphs of the sample documents: one without runs, one with two runs
ParaKinds == {ParagraphOf(<<>>, "Normal"),
              ParagraphOf(<<RunOf("Hello "), RunOf("world")>>, "Normal")}

RECURSIVE ParaSeqs(_)
ParaSeqs(n) == IF n = 0 THEN {<<>>}
               ELSE ParaSeqs(n - 1) \cup
                    {Append(ps, k) : ps \in {q \in ParaSeqs(n - 1) : Len(q) = n - 1},
                                     k \in ParaKinds}

\* section i of a sample document: its own margins, and a header and a footer
\* with `n` paragraphs
SectionOf(i, n) ==
    [margins |-> [top |-> Inches(100 + i), bottom |-> Inches(100 + i),
                  left |-> Inches(125), right |-> Inches(125)],
     header |-> [k \in 1..n |-> ParagraphOf(<<RunOf("old")>>, "Header")],
     footer |-> [k \in 1..n |-> ParagraphOf(<<>>, "Footer")]]

\* the documents uploaded: with and without the styles the engine asks for
SampleDocs ==
    {[paragraphs |-> ps,
      sections |-> [i \in 1..ns |-> SectionOf(i, n)],
      styles |-> st] :
        ps \in ParaSeqs(MaxParas), ns \in 1..MaxSections, n \in {0, 1},
        st \in {{"Heading 1", "List Bullet", "Caption"}, {}}}

set_font_first_run(d, font_name, font_size) ==
    [d EXCEPT !.paragraphs =
        [p \in 1..Len(d.paragraphs) |->
            [d.paragraphs[p] EXCEPT !.runs =
                [r \in 1..Len(d.paragraphs[p].runs) |->
                    IF r = 1
                    THEN [d.paragraphs[p].runs[r] EXCEPT !.font_name = font_name,
                                                         !.font_size = Pt(font_size)]
                    ELSE d.paragraphs[p].runs[r]]]]]

\* set_font(font_name, font_size)
set_font(d, font_name, font_size) ==
    [d EXCEPT !.paragraphs =
        [p \in 1..Len(d.paragraphs) |->
            [d.paragraphs[p] EXCEPT !.runs =
                [r \in 1..Len(d.paragraphs[p].runs) |->
                    [d.paragraphs[p].runs[r] EXCEPT !.font_name = font_name,
                                                    !.font_size = Pt(font_size)]]]]]

\* set_line_spacing(spacing), spacing in hundredths of a line
set_line_spacing(d, spacing) ==
    [d EXCEPT !.paragraphs =
        [p \in 1..Len(d.paragraphs) |->
            [d.paragraphs[p] EXCEPT !.line_spacing = spacing]]]

\* align_map.get(alignment, WD_ALIGN_PARAGRAPH.LEFT) of set_alignment
AlignOf(alignment) ==
    CASE alignment = "Left" -> "LEFT"
      [] alignment = "Center" -> "CENTER"
      [] alignment = "Right" -> "RIGHT"
      [] alignment = "Justify" -> "JUSTIFY"
      [] OTHER -> "LEFT"

\* set_alignment(alignment)
set_alignment(d, alignment) ==
    [d EXCEPT !.paragraphs =
        [p \in 1..Len(d.paragraphs) |->
            [d.paragraphs[p] EXCEPT !.alignment = AlignOf(alignment)]]]

set_margins_everywhere(d, top, bottom, left, right) ==
    [d EXCEPT !.sections =
        [i \in 1..Len(d.sections) |->
            [d.sections[i] EXCEPT !.margins =
                [top |-> Inches(top), bottom |-> Inches(bottom),
                 left |-> Inches(left), right |-> Inches(right)]]]]

\* set_margins(top, bottom, left, right), in hundredths of an inch: sections[0]
set_margins(d, top, bottom, left, right) ==
    [d EXCEPT !.sections[1].margins =
        [top |-> Inches(top), bottom |-> Inches(bottom),
         left |-> Inches(left), right |-> Inches(right)]]

\* an uploaded image: python-docx reads it or raises on a malformed one
Images == {[ok |-> TRUE], [ok |-> FALSE]}

\* paragraphs with one empty paragraph added when there is none
EnsureParagraph(paras, style) ==
    IF paras = <<>> THEN <<ParagraphOf(<<>>, style)>> ELSE paras

\* add_logo(image, width, height): [doc, raised]; the run is added to the
\* first header paragraph before add_picture reads the image
add_logo(d, image, width, height) ==
    LET hdr == EnsureParagraph(d.sections[1].header, "Header")
        run == IF image.ok
               THEN [RunOf("") EXCEPT !.picture = [width |-> Inches(width),
                                                   height |-> Inches(height)]]
               ELSE RunOf("")
        hdr2 == [hdr EXCEPT ![1].runs = Append(hdr[1].runs, run)]
    IN [doc |-> [d EXCEPT !.sections[1].header = hdr2],
        raised |-> IF image.ok THEN "none" ELSE "UnrecognizedImageError"]

\* align_map.get(align, WD_ALIGN_PARAGRAPH.LEFT) of set_header_footer
HfAlignOf(align) ==
    CASE align = "Left" -> "LEFT"
      [] align = "Center" -> "CENTER"
      [] align = "Right" -> "RIGHT"
      [] OTHER -> "LEFT"

\* the header or footer paragraphs after the four statements on them:
\* para.text = text replaces the paragraph's content by one run of that text
HeaderFooterPart(paras, text, size, align, style) ==
    LET ps == EnsureParagraph(paras, style)
    IN [ps EXCEPT ![1].runs = <<[RunOf(text) EXCEPT !.font_size = Pt(size)]>>,
                  ![1].alignment = HfAlignOf(align)]

\* set_header_footer(h_text, f_text, size, align)
set_header_footer(d, h_text, f_text, size, align) ==
    [d EXCEPT !.sections =
        [i \in 1..Len(d.sections) |->
            [d.sections[i] EXCEPT
                !.header = HeaderFooterPart(d.sections[i].header, h_text, size, align,
                                            "Header"),
                !.footer = HeaderFooterPart(d.sections[i].footer, f_text, size, align,
                                            "Footer")]]]

\* document.add_paragraph(text, style): [doc, raised]. The paragraph and its
\* run are appended to the body first; naming a style the document does not
\* define then raises KeyError
add_paragraph(d, text, style) ==
    LET runs == IF text = "" THEN <<>> ELSE <<RunOf(text)>>
        known == style = "Normal" \/ style \in d.styles
    IN [doc |-> [d EXCEPT !.paragraphs =
                    Append(d.paragraphs,
                           ParagraphOf(runs, IF known THEN style ELSE "Normal"))],
        raised |-> IF known THEN "none" ELSE "KeyError"]

\* add_section_title(title): document.add_heading(title, level=1)
add_section_title(d, title) == add_paragraph(d, title, "Heading 1")

\* add_bullet_list(items): the loop stops at the first add_paragraph that raises
RECURSIVE add_bullet_list(_, _)
add_bullet_list(d, items) ==
    IF items = <<>> THEN [doc |-> d, raised |-> "none"]
    ELSE LET r == add_paragraph(d, Head(items), "List Bullet")
         IN IF r.raised # "none" THEN r ELSE add_bullet_list(r.doc, Tail(items))

\* the paragraph holding the picture, of add_figure
add_picture_paragraph(d, image, w, h) ==
    LET run == IF image.ok
               THEN [RunOf("") EXCEPT !.picture = [width |-> Inches(w),
                                                   height |-> Inches(h)]]
               ELSE RunOf("")
    IN [doc |-> [d EXCEPT !.paragraphs =
                    Append(d.paragraphs, ParagraphOf(<<run>>, "Normal"))],
        raised |-> IF image.ok THEN "none" ELSE "UnrecognizedImageError"]

\* add_figure(image, w, h, caption, pos)
add_figure(d, image, w, h, caption, pos) ==
    LET above == IF pos = "Above" /\ caption # ""
                 THEN add_paragraph(d, caption, "Caption")
                 ELSE [doc |-> d, raised |-> "none"]
        pic == IF above.raised # "none" THEN above
               ELSE add_picture_paragraph(above.doc, image, w, h)
    IN IF pic.raised # "none" THEN pic
       ELSE IF pos = "Below" /\ caption # ""
       THEN add_paragraph(pic.doc, caption, "Caption")
       ELSE pic

notEngine == <<storeVars, uiVars, extractVars, checkerVars, exportVars, raceVars>>

\* DocuMorphEngine(docx_file): the uploaded document is loaded
EngineInit ==
    /\ fs = [p \in Paths |-> NoFile]
    /\ saved = [n \in Names |-> None]
    /\ storeRet = [op |-> "none", name |-> EmptyName, val |-> None, raised |-> "none"]
    /\ uiOutcome = "ok"
    /\ uiMsg = "none"
    /\ RaceIdle
    /\ ExtractIdle /\ CheckerIdle /\ ExportIdle
    /\ doc \in SampleDocs
    /\ engOp = [op |-> "none", n |-> 0, before |-> doc, args |-> NoArgs,
                raised |-> "none"]

\* a method call: the document after it, and what was called on what
Called(op, args, after, raised) ==
    /\ engOp.n < MaxOps
    /\ doc' = after
    /\ engOp' = [op |-> op, n |-> engOp.n + 1, before |-> doc, args |-> args,
                 raised |-> raised]
    /\ UNCHANGED notEngine

FontNames == {"Arial", "Georgia"}

FontSizes == {8, 14}

Spacings == {100, 150}

\* the four choices of the select box, and a value that is none of them
Alignments == {"Left", "Center", "Right", "Justify", "Middle"}

MarginChoices == {<<50, 125, 300, 10>>, <<200, 200, 200, 200>>}

ItemLists == {<<>>, <<"x">>, <<"a", "b", "c">>}

SetFont(font_name, font_size) ==
    Called("set_font", [NoArgs EXCEPT !.font_name = font_name, !.font_size = font_size],
           set_font(doc, font_name, font_size), "none")

SetLineSpacing(spacing) ==
    Called("set_line_spacing", [NoArgs EXCEPT !.spacing = spacing],
           set_line_spacing(doc, spacing), "none")

SetAlignment(alignment) ==
    Called("set_alignment", [NoArgs EXCEPT !.alignment = alignment],
           set_alignment(doc, alignment), "none")

SetMargins(m) ==
    Called("set_margins", [NoArgs EXCEPT !.margins = m],
           set_margins(doc, m[1], m[2], m[3], m[4]), "none")

AddLogo(image) ==
    LET r == add_logo(doc, image, 100, 100)
    IN Called("add_logo", NoArgs, r.doc, r.raised)

SetHeaderFooter(h_text, align) ==
    Called("set_header_footer", [NoArgs EXCEPT !.alignment = align],
           set_header_footer(doc, h_text, "", 10, align), "none")

AddSectionTitle ==
    LET r == add_section_title(doc, "Intro")
    IN Called("add_section_title", NoArgs, r.doc, r.raised)

AddBulletList(items) ==
    LET r == add_bullet_list(doc, items)
    IN Called("add_bullet_list", [NoArgs EXCEPT !.items = items], r.doc, r.raised)

AddFigure(image, caption, pos) ==
    LET r == add_figure(doc, image, 400, 300, caption, pos)
    IN Called("add_figure", NoArgs, r.doc, r.raised)

EngineNext ==
    \/ \E f \in FontNames, z \in FontSizes : SetFont(f, z)
    \/ \E sp \in Spacings : SetLineSpacing(sp)
    \/ \E a \in Alignments : SetAlignment(a)
    \/ \E m \in MarginChoices : SetMargins(m)
    \/ \E im \in Images : AddLogo(im)
    \/ \E h \in {"", "Report"}, a \in {"Center", "Middle"} : SetHeaderFooter(h, a)
    \/ AddSectionTitle
    \/ \E items \in ItemLists : AddBulletList(items)
    \/ \E im \in Images, c \in {"", "Fig. 1"}, pos \in {"Above", "Below"} :
          AddFigure(im, c, pos)

SpecEngine == EngineInit /\ [][EngineNext]_vars

\* the text of the paragraphs, run by run
TextOf(d) == [p \in 1..Len(d.paragraphs) |->
                [r \in 1..Len(d.paragraphs[p].runs) |-> d.paragraphs[p].runs[r].text]]

\* C9: set_font, set_line_spacing and set_alignment set the attribute on each
\* of the N paragraphs (the font on every run of every paragraph) and leave
\* the number of paragraphs, their order and their text unchanged.
C9_FormatsEveryParagraph ==
    (engOp.op \in {"set_font", "set_line_spacing", "set_alignment"}) =>
        /\ Len(doc.paragraphs) = Len(engOp.before.paragraphs)
        /\ TextOf(doc) = TextOf(engOp.before)
        /\ \A p \in 1..Len(doc.paragraphs) :
              /\ Len(doc.paragraphs[p].runs) = Len(engOp.before.paragraphs[p].runs)
              /\ engOp.op = "set_font" =>
                    \A r \in 1..Len(doc.paragraphs[p].runs) :
                        /\ doc.paragraphs[p].runs[r].font_name = engOp.args.font_name
                        /\ doc.paragraphs[p].runs[r].font_size = Pt(engOp.args.font_size)
              /\ engOp.op = "set_line_spacing" =>
                    doc.paragraphs[p].line_spacing = engOp.args.spacing
              /\ engOp.op = "set_alignment" =>
                    doc.paragraphs[p].alignment =
                        (CASE engOp.args.alignment = "Center" -> "CENTER"
                           [] engOp.args.alignment = "Right" -> "RIGHT"
                           [] engOp.args.alignment = "Justify" -> "JUSTIFY"
                           [] OTHER -> "LEFT")

\* set_font has run on a document of several paragraphs, one of them with
\* more than one run
C9_Witness ==
    /\ engOp.op = "set_font"
    /\ Len(doc.paragraphs) >= 2
    /\ \E p \in 1..Len(doc.paragraphs) : Len(doc.paragraphs[p].runs) >= 2

\* C10: on a document of more than one section set_margins overwrites the
\* four margins of section 0 and leaves every other section's margins alone.
C10_MarginsFirstSectionOnly ==
    (engOp.op = "set_margins" /\ Len(engOp.before.sections) > 1) =>
        /\ Len(doc.sections) = Len(engOp.before.sections)
        /\ doc.sections[1].margins =
              [top |-> Inches(engOp.args.margins[1]),
               bottom |-> Inches(engOp.args.margins[2]),
               left |-> Inches(engOp.args.margins[3]),
               right |-> Inches(engOp.args.margins[4])]
        /\ \A i \in 2..Len(doc.sections) :
              doc.sections[i].margins = engOp.before.sections[i].margins

C10_Witness ==
    /\ engOp.op = "set_margins"
    /\ Len(engOp.before.sections) > 1
    /\ doc.sections[1].margins # engOp.before.sections[1].margins

\* C11: add_bullet_list(items) appends exactly len(items) paragraphs at the
\* end of the body, in the order of items, each with the "List Bullet" style
\* and the item as its text, and leaves the earlier paragraphs unchanged; for
\* the empty sequence the paragraph count is unchanged.
C11_BulletListAppends ==
    (engOp.op = "add_bullet_list") =>
        LET n == Len(engOp.before.paragraphs)
            items == engOp.args.items
        IN /\ Len(doc.paragraphs) = n + Len(items)
           /\ \A k \in 1..n : doc.paragraphs[k] = engOp.before.paragraphs[k]
           /\ \A k \in 1..Len(items) :
                 /\ doc.paragraphs[n + k].style = "List Bullet"
                 /\ TextOf(doc)[n + k] = <<items[k]>>

(***************************************************************************)
(* Export tab: Generate Formatted Document                                 *)
(***************************************************************************)
\* most presses of the button in a run of the model
MaxExports == 2

\* the uploads of the Export tab: none, a file python-docx cannot open, or a
\* document of MaxParas paragraphs and MaxSections sections
NoUpload == [kind |-> "none", doc |-> NoDocument]

CorruptUpload == [kind |-> "corrupt", doc |-> NoDocument]

ExportUploads ==
    {NoUpload, CorruptUpload} \cup
    {[kind |-> "docx", doc |-> d] :
        d \in {x \in SampleDocs : /\ Len(x.sections) = MaxSections
                                  /\ Len(x.paragraphs) = MaxParas
                                  /\ \A p \in 1..Len(x.paragraphs) :
                                        Len(x.paragraphs[p].runs) = 2}}

NoImage == [ok |-> TRUE, none |-> TRUE]

Uploaded(image) == [ok |-> image.ok, none |-> FALSE]

\* the widgets' values when the button is pressed
Widgets ==
    [font_name : FontNames, font_size : {14}, line_spacing : {150},
     alignment : {"Center"}, margins : {<<50, 125, 300, 10>>},
     header_text : {"", "Report"}, footer_text : {""}, hf_size : {10},
     hf_align : {"Center"},
     logo : {NoImage} \cup {Uploaded(im) : im \in Images},
     section_title : {"", "Intro"},
     bullets : {<<>>, <<"a", "", "b">>},
     figure : {NoImage} \cup {Uploaded(im) : im \in Images},
     caption : {"Fig. 1"}, caption_pos : {"Below"}]

\* [b.strip() for b in bullets.split("\n") if b.strip()], on lines that have
\* no blanks around them
RECURSIVE BulletItems(_)
BulletItems(lines) ==
    IF lines = <<>> THEN <<>>
    ELSE (IF Head(lines) # "" THEN <<Head(lines)>> ELSE <<>>) \o BulletItems(Tail(lines))

\* one step of the try block on the result so far: a step after a failed one
\* is not run
Then(r, step, next) ==
    IF r.raised # "none" THEN r
    ELSE [doc |-> next.doc, raised |-> next.raised,
          failed |-> IF next.raised # "none" THEN step ELSE "none"]

Pure(d) == [doc |-> d, raised |-> "none"]

\* the formatting and content steps, in the order of the handler
Formatted(d, w) ==
    LET s0 == [doc |-> d, raised |-> "none", failed |-> "none"]
        s1 == Then(s0, "set_font", Pure(set_font(s0.doc, w.font_name, w.font_size)))
        s2 == Then(s1, "set_line_spacing", Pure(set_line_spacing(s1.doc, w.line_spacing)))
        s3 == Then(s2, "set_alignment", Pure(set_alignment(s2.doc, w.alignment)))
        s4 == Then(s3, "set_margins",
                   Pure(set_margins(s3.doc, w.margins[1], w.margins[2],
                                    w.margins[3], w.margins[4])))
        s5 == IF w.logo.none THEN s4
              ELSE Then(s4, "add_logo", add_logo(s4.doc, w.logo, 100, 100))
        s6 == Then(s5, "set_header_footer",
                   Pure(set_header_footer(s5.doc, w.header_text, w.footer_text,
                                          w.hf_size, w.hf_align)))
        s7 == IF w.section_title = "" THEN s6
              ELSE Then(s6, "add_section_title",
                        add_section_title(s6.doc, w.section_title))
        s8 == IF BulletItems(w.bullets) = <<>> THEN s7
              ELSE Then(s7, "add_bullet_list",
                        add_bullet_list(s7.doc, BulletItems(w.bullets)))
    IN IF w.figure.none THEN s8
       ELSE Then(s8, "add_figure",
                 add_figure(s8.doc, w.figure, 400, 300, w.caption, w.caption_pos))

\* the except branch: st.error(f"Error generating document: ...")
ExportError(step, tmp) ==
    [failed |-> step, tmp |-> tmp, msg |-> "Error generating document",
     download |-> FALSE, data |-> NoDocument, logo |-> FALSE]

notExport == <<storeVars, uiVars, extractVars, checkerVars, engOp, raceVars>>

ExportInit ==
    /\ fs = [p \in Paths |-> NoFile]
    /\ saved = [n \in Names |-> None]
    /\ storeRet = [op |-> "none", name |-> EmptyName, val |-> None, raised |-> "none"]
    /\ uiOutcome = "ok"
    /\ uiMsg = "none"
    /\ RaceIdle
    /\ ExtractIdle /\ CheckerIdle /\ EngineIdle /\ ExportIdle

\* The button pressed with upload `up` and widgets `w`; `saveOk` is whether
\* engine.save can write the output file. doc is the engine's document when
\* the handler ends.
Export(up, w, saveOk) ==
    /\ exports < MaxExports
    /\ exports' = exports + 1
    /\ UNCHANGED notExport
    /\ IF up.kind = "none"
       THEN /\ expRet' = [NoExport EXCEPT !.msg = "Please upload a DOCX file first"]
            /\ UNCHANGED <<doc, expDisk>>
       ELSE IF up.kind = "corrupt"
       THEN /\ expRet' = ExportError("load", 0)
            /\ UNCHANGED <<doc, expDisk>>
       ELSE LET f == Formatted(up.doc, w)
                tmp == exports + 1
                logo == ~w.logo.none
            IN /\ doc' = f.doc
               /\ IF f.raised # "none"
                  THEN /\ expRet' = [ExportError(f.failed, 0) EXCEPT !.logo = logo]
                       /\ UNCHANGED expDisk
                  ELSE IF ~saveOk
                  THEN /\ expRet' = [ExportError("save", tmp) EXCEPT !.logo = logo]
                       /\ expDisk' = expDisk \cup {tmp}
                  ELSE /\ expRet' = [failed |-> "none", tmp |-> tmp, msg |-> "none",
                                      download |-> TRUE, data |-> f.doc,
                                      logo |-> logo]
                       /\ expDisk' = (expDisk \cup {tmp}) \ {tmp}

ExportNext == \E up \in ExportUploads, w \in Widgets, saveOk \in BOOLEAN :
                 Export(up, w, saveOk)

SpecExport == ExportInit /\ [][ExportNext]_vars

\* C7: when a step of the export fails, an error is reported, no download is
\* offered, and no output file made by that export is left on disk.
C7_FailedExportLeavesNothing ==
    (expRet.failed # "none") =>
        /\ expRet.msg # "none"
        /\ ~expRet.download
        /\ expRet.tmp \notin expDisk

\* the runs of the first section's first header paragraph that hold a picture
HeaderPictures(d) ==
    IF d.sections[1].header = <<>> THEN {}
    ELSE {r \in 1..Len(d.sections[1].header[1].runs) :
            d.sections[1].header[1].runs[r].picture # NoPicture}

\* C13: when a logo is uploaded, the picture add_logo put into the first
\* header paragraph of the first section is still in the header of the saved
\* document, after set_header_footer has set that paragraph's text.
C13_LogoSurvivesHeaderText ==
    (expRet.download /\ expRet.logo) => HeaderPictures(expRet.data) # {}

====
